---- MODULE Spec2Model ----
(***************************************************************************)
(* A model of the SCION bootstrapper: the hint-racing orchestrator         *)
(* (Bootstrapper.tryBootstrapping), the artifact fetcher (pullTopology,    *)
(* pullTRCs, writeTarEntry, fetchHTTP) and the DNS-SD resolution engine    *)
(* (DNSSDHintGenerator.Generate, resolveDNS, byPriority, byOrder).         *)
(*                                                                         *)
(* Strings that the code takes apart (archive entry names, file paths) are *)
(* sequences of one-character strings, so that filepath.Base and path.Join *)
(* are computed and not assumed.                                           *)
(***************************************************************************)
EXTENDS Integers, Sequences, FiniteSets, TLC

(***************************************************************************)
(* Bounds of the model.                                                    *)
(***************************************************************************)
\* Longest archive entry name drawn for a tar header.
MaxNameLen == 2
\* Most headers tr.Next() yields before the archive ends.
MaxEntries == 2
\* Most answer records the DNS servers deliver in one run, all responses
\* together.
MaxRecords == 3
\* Deepest nesting of resolveDNS calls followed when the servers answer by
\* name; deeper than any chain of the acyclic sites.
MaxDepth == 4
\* Longest SRV batch sorted on its own, and the largest of the small weights
\* its records carry.
MaxBatch == 3
MaxWeight == 2

(***************************************************************************)
(* Program constants and configuration.                                    *)
(***************************************************************************)
\* hinting.DiscoveryPort, the well-known discovery port.
DiscoveryPort == 8041

\* The four hint generators tryBootstrapping launches, in launch order.
hintGenerators == <<"Mock", "DHCP", "DNSSD", "MDNS">>

Generators == {hintGenerators[i] : i \in 1..Len(hintGenerators)}

\* An address on ipHintsChan: an IP and a port, port 0 standing for "no port
\* supplied".
Hint(ip, port) == [IP |-> ip, Port |-> port]

\* The addresses each generator may put on ipHintsChan. The DNS-SD generator
\* sends bare IPs; the mock generator is configured with 10.0.0.5 and no
\* port; the other two announce a port of their own.
HintsOf(g) ==
    CASE g = "Mock"  -> {Hint("10.0.0.5", 0)}
      [] g = "DHCP"  -> {Hint("10.0.0.6", 80)}
      [] g = "DNSSD" -> {Hint("192.0.2.1", 0)}
      [] g = "MDNS"  -> {Hint("fe80::1", DiscoveryPort)}

Hints == UNION {HintsOf(g) : g \in Generators}

NoHint == [IP |-> "", Port |-> 0]

\* cfg.SciondConfigDir, a clean absolute directory path.
SciondConfigDir == <<"/", "s">>

\* The characters archive entry names are drawn from.
NameChars == {"a", ".", "/"}

\* The typeflags a tar header may carry: tar.TypeReg, tar.TypeDir and one
\* other type (a symbolic link).
Typeflags == {"TypeReg", "TypeDir", "TypeSymlink"}

\* Response bodies of the topology endpoint, and the one of them that
\* topology.RWTopologyFromJSONBytes accepts.
TopologyBodies == {"topology", "garbage"}

ValidTopology(raw) == raw = "topology"

\* HTTP status codes of a response.
StatusCodes == {200, 404}

(***************************************************************************)
(* Path functions of the Go library, on sequences of characters.           *)
(***************************************************************************)
\* All character sequences of length at most n over the set chars.
RECURSIVE StringsUpTo(_, _)
StringsUpTo(chars, n) ==
    IF n = 0 THEN {<<>>}
    ELSE LET shorter == StringsUpTo(chars, n - 1)
         IN  shorter \cup {s \o <<c>> : s \in shorter, c \in chars}

\* The names a tar header may carry.
EntryNames == StringsUpTo(NameChars, MaxNameLen)

\* filepath.Base, first loop: strip the trailing slashes.
RECURSIVE StripTrailingSlashes(_)
StripTrailingSlashes(path) ==
    IF Len(path) > 0 /\ path[Len(path)] = "/"
    THEN StripTrailingSlashes(SubSeq(path, 1, Len(path) - 1))
    ELSE path

\* filepath.Base, second loop: the index of the last separator, 0 when none.
RECURSIVE LastSeparator(_, _)
LastSeparator(path, i) ==
    IF i >= 1 /\ path[i] # "/" THEN LastSeparator(path, i - 1) ELSE i

\* filepath.Base (Unix: no volume name).
Base(name) ==
    IF name = <<>> THEN <<".">>
    ELSE LET stripped == StripTrailingSlashes(name)
             i == LastSeparator(stripped, Len(stripped))
             last == IF i >= 1 THEN SubSeq(stripped, i + 1, Len(stripped))
                     ELSE stripped
         IN  IF last = <<>> THEN <<"/">> ELSE last

\* path.Clean, the ".." case: drop the last element of the output buffer,
\* down to the mark dotdot.
RECURSIVE Backtrack(_, _)
Backtrack(out, dotdot) ==
    LET shorter == SubSeq(out, 1, Len(out) - 1)
    IN  IF Len(shorter) > dotdot /\ out[Len(out)] # "/"
        THEN Backtrack(shorter, dotdot)
        ELSE shorter

\* path.Clean, the default case: copy one element up to the next separator.
RECURSIVE CopyElement(_, _, _)
CopyElement(path, r, out) ==
    IF r <= Len(path) /\ path[r] # "/"
    THEN CopyElement(path, r + 1, out \o <<path[r]>>)
    ELSE [r |-> r, out |-> out]

\* path.Clean, the scanning loop; r is the 1-based read position, out the
\* output buffer, dotdot the length below which ".." cannot backtrack.
RECURSIVE CleanLoop(_, _, _, _, _)
CleanLoop(path, r, out, dotdot, rooted) ==
    LET n == Len(path)
    IN  IF r > n THEN out
        ELSE IF path[r] = "/"
        THEN CleanLoop(path, r + 1, out, dotdot, rooted)
        ELSE IF path[r] = "." /\ (r = n \/ path[r + 1] = "/")
        THEN CleanLoop(path, r + 1, out, dotdot, rooted)
        ELSE IF path[r] = "." /\ path[r + 1] = "."
                /\ (r + 1 = n \/ path[r + 2] = "/")
        THEN IF Len(out) > dotdot
             THEN CleanLoop(path, r + 2, Backtrack(out, dotdot), dotdot, rooted)
             ELSE IF ~rooted
             THEN LET sep == IF Len(out) > 0 THEN <<"/">> ELSE <<>>
                      out2 == out \o sep \o <<".", ".">>
                  IN  CleanLoop(path, r + 2, out2, Len(out2), rooted)
             ELSE CleanLoop(path, r + 2, out, dotdot, rooted)
        ELSE LET sep == IF (rooted /\ Len(out) # 1) \/ (~rooted /\ Len(out) # 0)
                        THEN <<"/">> ELSE <<>>
                 c == CopyElement(path, r, out \o sep)
             IN  CleanLoop(path, c.r, c.out, dotdot, rooted)

\* path.Clean.
Clean(path) ==
    IF path = <<>> THEN <<".">>
    ELSE LET rooted == path[1] = "/"
             out == IF rooted THEN CleanLoop(path, 2, <<"/">>, 1, TRUE)
                    ELSE CleanLoop(path, 1, <<>>, 0, FALSE)
         IN  IF out = <<>> THEN <<".">> ELSE out

\* path.Join of three elements: the non-empty ones joined by "/", cleaned.
RECURSIVE JoinElems(_, _)
JoinElems(elems, buf) ==
    IF elems = <<>> THEN buf
    ELSE LET e == Head(elems)
             buf2 == IF Len(buf) > 0 \/ e # <<>>
                     THEN (IF Len(buf) > 0 THEN buf \o <<"/">> ELSE buf) \o e
                     ELSE buf
         IN  JoinElems(Tail(elems), buf2)

Join(elems) ==
    LET buf == JoinElems(elems, <<>>)
    IN  IF buf = <<>> THEN <<>> ELSE Clean(buf)

\* The "certs" path element of pullTRCs.
CertsElem == <<"c", "e", "r", "t", "s">>

\* <SciondConfigDir>/certs, the certificates directory.
CertsDir == Join(<<SciondConfigDir, CertsElem>>)

\* The path pullTRCs builds for an archive entry's reduced name.
TrcPath(trcName) == Join(<<SciondConfigDir, CertsElem, trcName>>)

\* The directories of the configuration area: opening one of them for
\* writing fails.
IsDirectory(path) == path \in {SciondConfigDir, CertsDir, <<"/">>}

\* A direct child of the certificates directory: <CertsDir>/<element> with
\* a single element that is neither "." nor "..".
DirectChildOfCerts(path) ==
    /\ Len(path) > Len(CertsDir) + 1
    /\ SubSeq(path, 1, Len(CertsDir) + 1) = CertsDir \o <<"/">>
    /\ LET elem == SubSeq(path, Len(CertsDir) + 2, Len(path))
       IN  /\ \A i \in 1..Len(elem) : elem[i] # "/"
           /\ elem # <<".">>
           /\ elem # <<".", ".">>

(***************************************************************************)
(* State.                                                                  *)
(***************************************************************************)
VARIABLES
    pc,          \* position of tryBootstrapping
    outcome,     \* what tryBootstrapping returned ("none" while it runs)
    timer,       \* the time.After(hintsTimeout) channel
    gens,        \* each generator goroutine: its position and pending send
    received,    \* history: the values received from ipHintsChan, in order
    serverAddr,  \* the address handed to the fetch steps
    topoCalls,   \* history: the addresses pullTopology was invoked with
    trcCalls,    \* history: the addresses pullTRCs was invoked with
    topoResp,    \* history: the response pullTopology got
    topoFile,    \* content of <SciondConfigDir>/topology.json
    nEntries,    \* headers read from the TRCs archive so far
    certs,       \* paths writeTarEntry created or wrote
    trcPaths,    \* history: the paths pullTRCs passed to writeTarEntry
    dnsCfg,      \* the DNSHintGeneratorConf of the DNS-SD generator
    zone,        \* the records the DNS servers hold in this run
    dnsPc,       \* position of DNSSDHintGenerator.Generate
    work,        \* the resolveDNS calls Generate still makes for this DNSInfo
    stack,       \* the active resolveDNS calls, innermost last
    nRecords     \* answer records delivered so far

vars == <<pc, outcome, timer, gens, received, serverAddr, topoCalls, trcCalls,
          topoResp, topoFile, nEntries, certs, trcPaths,
          dnsCfg, zone, dnsPc, work, stack, nRecords>>

dnsVars == <<dnsCfg, zone, dnsPc, work, stack, nRecords>>

fetcherVars == <<topoCalls, trcCalls, topoResp, topoFile, nEntries, certs, trcPaths>>

(***************************************************************************)
(* Values.                                                                 *)
(***************************************************************************)
\* tryBootstrapping has not returned.
Running == [by |-> "", err |-> ""]

\* tryBootstrapping returned nil.
Success == [by |-> "tryBootstrapping", err |-> "nil"]

\* tryBootstrapping returned the error err, raised in function by.
Failure(by, err) == [by |-> by, err |-> err]

TimedOut == Failure("tryBootstrapping", "bootstrapper timed out")

NoResponse == [status |-> 0, body |-> "", readOK |-> FALSE]

\* A generator goroutine: not yet launched, blocked in a send on ipHintsChan
\* with the value val, or "running": anywhere else in Generate, at work,
\* waiting on its own I/O or past its return.
GenState(st, val) == [st |-> st, val |-> val]

\* The initial content of the topology file: none, or one of an earlier run.
InitialTopoFiles == {"absent", "previous"}

(***************************************************************************)
(* Initial state: NewBootstrapper has returned, tryBootstrapping has not   *)
(* been entered.                                                           *)
(***************************************************************************)
Init ==
    /\ pc = "Idle"
    /\ outcome = Running
    /\ timer = "unset"
    /\ gens = [g \in Generators |-> GenState("notStarted", NoHint)]
    /\ received = <<>>
    /\ serverAddr = NoHint
    /\ topoCalls = <<>>
    /\ trcCalls = <<>>
    /\ topoResp = NoResponse
    /\ topoFile \in InitialTopoFiles
    /\ nEntries = 0
    /\ certs = {}
    /\ trcPaths = {}
    /\ dnsCfg = [EnableSD |-> TRUE, EnableNAPTR |-> TRUE, EnableSRV |-> TRUE]
    /\ zone = {}
    /\ dnsPc = "range"
    /\ work = <<>>
    /\ stack = <<>>
    /\ nRecords = 0

(***************************************************************************)
(* The hint orchestrator.                                                  *)
(***************************************************************************)
\* tryBootstrapping up to the select: launch one goroutine per generator
\* and arm the deadline timer.
Launch ==
    /\ pc = "Idle"
    /\ gens' = [g \in Generators |-> GenState("running", NoHint)]
    /\ timer' = "armed"
    /\ pc' = "Racing"
    /\ UNCHANGED <<outcome, received, serverAddr, fetcherVars>>
    /\ UNCHANGED dnsVars

\* A generator reaches a send on the unbuffered ipHintsChan and blocks in it.
GenSend(g, h) ==
    /\ gens[g].st = "running"
    /\ gens' = [gens EXCEPT ![g] = GenState("sending", h)]
    /\ UNCHANGED <<pc, outcome, timer, received, serverAddr, fetcherVars>>
    /\ UNCHANGED dnsVars

\* The deadline passes: time.After delivers on its channel.
TimerFire ==
    /\ timer = "armed"
    /\ timer' = "fired"
    /\ UNCHANGED <<pc, outcome, gens, received, serverAddr, fetcherVars>>
    /\ UNCHANGED dnsVars

\* The port substitution, mutated to overwrite every port.
SubstitutePortAlways(ipAddr) == [ipAddr EXCEPT !.Port = DiscoveryPort]

\* The port substitution of the receive branch.
SubstitutePort(ipAddr) ==
    IF ipAddr.Port = 0 THEN [ipAddr EXCEPT !.Port = DiscoveryPort] ELSE ipAddr

\* The receive branch mutated to stay in the select loop after an address.
ReceiveHintKeepsRacing(g) ==
    /\ pc = "Racing"
    /\ gens[g].st = "sending"
    /\ received' = Append(received, gens[g].val)
    /\ serverAddr' = SubstitutePort(gens[g].val)
    /\ gens' = [gens EXCEPT ![g] = GenState("running", NoHint)]
    /\ UNCHANGED <<pc, outcome, timer, fetcherVars>>
    /\ UNCHANGED dnsVars

\* select, case ipAddr := <-b.ipHintsChan: the send of generator g completes.
ReceiveHint(g) ==
    /\ pc = "Racing"
    /\ gens[g].st = "sending"
    /\ received' = Append(received, gens[g].val)
    /\ serverAddr' = SubstitutePort(gens[g].val)
    /\ gens' = [gens EXCEPT ![g] = GenState("running", NoHint)]
    /\ pc' = "pullTopology"
    /\ UNCHANGED <<outcome, timer, fetcherVars>>
    /\ UNCHANGED dnsVars

\* The receive branch of the select, for any generator.
SelectReceive == \E g \in Generators : ReceiveHint(g)

\* select, case <-hintsTimeout, mutated to log the timeout and go on waiting
\* in the loop.
TimeoutKeepsWaiting ==
    /\ pc = "Racing"
    /\ timer = "fired"
    /\ timer' = "consumed"
    /\ UNCHANGED <<pc, outcome, gens, received, serverAddr, fetcherVars>>
    /\ UNCHANGED dnsVars

\* select, case <-hintsTimeout, mutated to leave the loop without returning
\* the error, as the receive branch does after its fetch steps.
TimeoutFallsThrough ==
    /\ pc = "Racing"
    /\ timer = "fired"
    /\ timer' = "consumed"
    /\ pc' = "pullTopology"
    /\ UNCHANGED <<outcome, gens, received, serverAddr, fetcherVars>>
    /\ UNCHANGED dnsVars

\* select, case <-hintsTimeout.
Timeout ==
    /\ pc = "Racing"
    /\ timer = "fired"
    /\ timer' = "consumed"
    /\ outcome' = TimedOut
    /\ pc' = "Returned"
    /\ UNCHANGED <<gens, received, serverAddr, fetcherVars>>
    /\ UNCHANGED dnsVars

\* Where tryBootstrapping goes when a fetch step returned an error: a mutant
\* that stays in the select loop and waits for the next hint.
AfterFetchErrorRetry == "Racing"

\* Where tryBootstrapping goes when pullTopology or pullTRCs returned an
\* error: it returns that error.
AfterFetchError == "Returned"

(***************************************************************************)
(* The artifact fetcher.                                                   *)
(***************************************************************************)
\* fetchHTTP: the request fails, or answers with a status; only a 200
\* response yields a body to read.
FetchHTTPError(requestOK, status) ==
    IF ~requestOK THEN "HTTP request failed"
    ELSE IF status # 200 THEN "Status not OK"
    ELSE "nil"

\* pullTopology on a response: the error it returns ("nil" for none).
PullTopologyError(requestOK, status, readOK, raw, writeOK) ==
    IF FetchHTTPError(requestOK, status) # "nil"
    THEN FetchHTTPError(requestOK, status)
    ELSE IF ~readOK THEN "Unable to read from response body"
    ELSE IF ~ValidTopology(raw) THEN "unable to parse RWTopology from JSON bytes"
    ELSE IF ~writeOK THEN "Bootstrapper could not store topology"
    ELSE "nil"

\* pullTopology mutated to store the body before it is parsed.
TopologyWriteBeforeParse(requestOK, status, readOK, raw) ==
    /\ requestOK
    /\ status = 200
    /\ readOK

\* pullTopology reaches ioutil.WriteFile exactly when fetch, read and parse
\* all succeeded.
TopologyWriteReached(requestOK, status, readOK, raw) ==
    /\ FetchHTTPError(requestOK, status) = "nil"
    /\ readOK
    /\ ValidTopology(raw)

\* pullTopology(serverAddr) and the check of its error in tryBootstrapping.
\* A failing WriteFile leaves the file as it was or truncated.
PullTopology ==
    /\ pc = "pullTopology"
    /\ topoCalls' = Append(topoCalls, serverAddr)
    /\ \E requestOK \in BOOLEAN, status \in StatusCodes, readOK \in BOOLEAN,
          raw \in TopologyBodies, writeOK \in BOOLEAN :
          LET err == PullTopologyError(requestOK, status, readOK, raw, writeOK)
          IN  /\ topoResp' = IF requestOK
                             THEN [status |-> status, body |-> raw, readOK |-> readOK]
                             ELSE NoResponse
              /\ IF TopologyWriteReached(requestOK, status, readOK, raw)
                 THEN IF writeOK THEN topoFile' = raw
                      ELSE topoFile' \in {topoFile, "truncated"}
                 ELSE topoFile' = topoFile
              /\ IF err = "nil"
                 THEN pc' = "pullTRCs" /\ outcome' = outcome
                 ELSE pc' = AfterFetchError /\ outcome' = Failure("pullTopology", err)
    /\ UNCHANGED <<timer, gens, received, serverAddr, trcCalls, nEntries, certs,
                   trcPaths>>
    /\ UNCHANGED dnsVars

\* pullTRCs(serverAddr) up to tar.NewReader: the HTTP fetch of the archive.
PullTRCs ==
    /\ pc = "pullTRCs"
    /\ trcCalls' = Append(trcCalls, serverAddr)
    /\ \E requestOK \in BOOLEAN, status \in StatusCodes :
          LET err == FetchHTTPError(requestOK, status)
          IN  IF err = "nil"
              THEN pc' = "tarNext" /\ outcome' = outcome
              ELSE pc' = AfterFetchError /\ outcome' = Failure("pullTRCs", err)
    /\ UNCHANGED <<timer, gens, received, serverAddr, topoCalls, topoResp,
                   topoFile, nEntries, certs, trcPaths>>
    /\ UNCHANGED dnsVars

\* The reduced name of an archive entry.
TrcName(hdrName) == Base(hdrName)

\* The test that makes pullTRCs skip an entry.
InvalidTrcName(trcName) == trcName = <<".">>

\* writeTarEntry: the outcomes of os.OpenFile and io.Copy on trcPath.
\* Opening a directory for writing fails; any open or copy may fail.
WriteOutcomes(trcPath) ==
    IF IsDirectory(trcPath) THEN {"openFailed"}
    ELSE {"ok", "openFailed", "copyFailed"}

\* The archive loop of pullTRCs, one tr.Next() and the switch on its header.
TarEOF ==
    /\ pc = "tarNext"
    /\ pc' = "Returned"
    /\ outcome' = Success
    /\ UNCHANGED <<timer, gens, received, serverAddr, fetcherVars>>
    /\ UNCHANGED dnsVars

TarError ==
    /\ pc = "tarNext"
    /\ pc' = AfterFetchError
    /\ outcome' = Failure("pullTRCs", "error reading tar archive")
    /\ UNCHANGED <<timer, gens, received, serverAddr, fetcherVars>>
    /\ UNCHANGED dnsVars

TarRegular(hdrName) ==
    /\ pc = "tarNext"
    /\ nEntries < MaxEntries
    /\ nEntries' = nEntries + 1
    /\ LET trcName == TrcName(hdrName)
           trcPath == TrcPath(trcName)
       IN  IF InvalidTrcName(trcName)
           THEN UNCHANGED <<pc, outcome, certs, trcPaths>>
           ELSE /\ trcPaths' = trcPaths \cup {trcPath}
                /\ \E w \in WriteOutcomes(trcPath) :
                      /\ certs' = IF w = "openFailed" THEN certs
                                  ELSE certs \cup {trcPath}
                      /\ IF w = "ok"
                         THEN UNCHANGED <<pc, outcome>>
                         ELSE /\ pc' = AfterFetchError
                              /\ outcome' = Failure("pullTRCs",
                                                "Bootstrapper could not store TRC")
    /\ UNCHANGED <<timer, gens, received, serverAddr, topoCalls, trcCalls,
                   topoResp, topoFile>>
    /\ UNCHANGED dnsVars

TarDirectory ==
    /\ pc = "tarNext"
    /\ nEntries < MaxEntries
    /\ nEntries' = nEntries + 1
    /\ pc' = AfterFetchError
    /\ outcome' = Failure("pullTRCs", "directory found")
    /\ UNCHANGED <<timer, gens, received, serverAddr, topoCalls, trcCalls,
                   topoResp, topoFile, certs, trcPaths>>
    /\ UNCHANGED dnsVars

TarOtherType ==
    /\ pc = "tarNext"
    /\ nEntries < MaxEntries
    /\ nEntries' = nEntries + 1
    /\ pc' = AfterFetchError
    /\ outcome' = Failure("pullTRCs", "unknown type found")
    /\ UNCHANGED <<timer, gens, received, serverAddr, topoCalls, trcCalls,
                   topoResp, topoFile, certs, trcPaths>>
    /\ UNCHANGED dnsVars

(***************************************************************************)
(* The DNS-SD resolution engine: names, records and the servers' data.     *)
(* A DNS name is its sequence of labels.                                   *)
(***************************************************************************)
discoveryServiceDNSName == <<"_sciondiscovery", "_tcp">>

discoveryDDDSDNSName == "x-sciondiscovery:tcp"

\* The answer records resolveDNS tells apart.
PTR(ptr) == [type |-> "PTR", Ptr |-> ptr]

SRV(priority, weight, port, target) ==
    [type |-> "SRV", Priority |-> priority, Weight |-> weight, Port |-> port,
     Target |-> target]

NAPTR(order, preference, flags, service, replacement) ==
    [type |-> "NAPTR", Order |-> order, Preference |-> preference,
     Flags |-> flags, Service |-> service, Replacement |-> replacement]

A(ip) == [type |-> "A", A |-> ip]

AAAA(ip) == [type |-> "AAAA", AAAA |-> ip]

\* The names records point to.
Host1 == <<"h1", "lan">>

Host2 == <<"h2", "lan">>

\* What the DNS servers of a run hold, one of three sites: a site publishing
\* SRV records (two priorities, zero and non-zero weights, one of them on a
\* port other than the discovery port), a site publishing NAPTR records
\* (every flag the code dispatches on, one it does not know, and one record
\* of another service), and a DNS-SD site publishing a PTR record with one
\* record of each other type.
SRVSite ==
    {SRV(0, 1, DiscoveryPort, Host1), SRV(0, 2, DiscoveryPort, Host2),
     SRV(1, 0, 80, Host1), SRV(1, 0, DiscoveryPort, Host2),
     AAAA("2001:db8::1")}

NAPTRSite ==
    {NAPTR(0, 0, "A", discoveryDDDSDNSName, Host1),
     NAPTR(0, 1, "S", discoveryDDDSDNSName, Host2),
     NAPTR(1, 0, "", discoveryDDDSDNSName, Host1),
     NAPTR(1, 0, "U", discoveryDDDSDNSName, Host2),
     NAPTR(0, 0, "S", "sip+d2u", Host2),
     A("192.0.2.1")}

SDSite ==
    {PTR(<<"ds", "lan">>), SRV(0, 0, DiscoveryPort, Host1),
     NAPTR(0, 0, "S", discoveryDDDSDNSName, Host1),
     A("192.0.2.1"), AAAA("2001:db8::1")}

Zones == {SRVSite, NAPTRSite, SDSite}

\* Servers that answer by name and type: the answers of one question.
RRSet(name, rr, answers) == [name |-> name, rr |-> rr, answers |-> answers]

\* The domain of the local hostname and the names Generate asks about.
LocalDomain == <<"example", "org">>

SDName == discoveryServiceDNSName \o LocalDomain

DsName == <<"ds", "lan">>

IPv6Hint == "2001:db8::1"

IPv4Hint == "192.0.2.1"

\* A DNS-SD site: a PTR record whose target has an SRV record whose target
\* has an AAAA and an A record.
ChainSite ==
    {RRSet(SDName, "PTR", <<PTR(DsName)>>),
     RRSet(DsName, "SRV", <<SRV(0, 0, DiscoveryPort, Host1)>>),
     RRSet(Host1, "AAAA", <<AAAA(IPv6Hint)>>),
     RRSet(Host1, "A", <<A(IPv4Hint)>>)}

\* A site found through a NAPTR record with flags "A".
ReferralSite ==
    {RRSet(LocalDomain, "NAPTR", <<NAPTR(0, 0, "A", discoveryDDDSDNSName, Host1)>>),
     RRSet(Host1, "AAAA", <<AAAA(IPv6Hint)>>),
     RRSet(Host1, "A", <<A(IPv4Hint)>>)}

RaceSites == {ChainSite, ReferralSite}

\* Misconfigured or hostile data: the NAPTR record of the local domain, of
\* the discovery service and with empty flags, has the local domain itself
\* as replacement; the same response carries an address.
CyclicSite ==
    {RRSet(LocalDomain, "NAPTR",
           <<A(IPv4Hint), NAPTR(0, 0, "", discoveryDDDSDNSName, LocalDomain)>>)}

Host3 == <<"h3", "lan">>

StrayHint == "198.51.100.7"

\* A site whose answer to the PTR question mixes every type of record: an
\* SRV record ahead of an address and of a PTR record, NAPTR records of the
\* discovery service and of another service (the only way to Host3), and
\* an address last.
MixedSite ==
    {RRSet(SDName, "PTR",
           <<SRV(0, 0, DiscoveryPort, Host1),
             A(IPv4Hint),
             NAPTR(1, 0, "A", discoveryDDDSDNSName, Host2),
             PTR(DsName),
             NAPTR(0, 0, "A", "sip+d2u", Host3),
             AAAA(IPv6Hint)>>),
     RRSet(DsName, "SRV", <<SRV(1, 0, DiscoveryPort, Host2)>>),
     RRSet(Host1, "AAAA", <<AAAA("2001:db8::11")>>),
     RRSet(Host2, "A", <<A("192.0.2.12")>>),
     RRSet(Host3, "A", <<A(StrayHint)>>),
     RRSet(Host3, "AAAA", <<AAAA("2001:db8::13")>>)}

ChaseSites == {ChainSite, ReferralSite, CyclicSite, MixedSite}

\* result.Answer of a successful exchange with such servers.
Response(z, query, dnsRR) ==
    LET hits == {e \in z : e.name = query /\ e.rr = dnsRR}
    IN  IF hits = {} THEN <<>> ELSE (CHOOSE e \in hits : TRUE).answers

\* The DNSInfo values the DHCP side may send, and the local hostnames.
DNSInfos == {[resolvers |-> <<"192.0.2.53">>, searchDomains |-> <<>>]}

Hostnames == {<<"host">>, <<"host", "example", "org">>}

\* The DNSHintGeneratorConf values: everything enabled, or DNS-SD alone.
DNSConfs ==
    {[EnableSD |-> TRUE, EnableNAPTR |-> TRUE, EnableSRV |-> TRUE],
     [EnableSD |-> TRUE, EnableNAPTR |-> FALSE, EnableSRV |-> FALSE]}

(***************************************************************************)
(* byPriority, byOrder and sort.Sort.                                      *)
(***************************************************************************)
\* The argument of rand.Intn mutated to add the weights as uint16, before
\* the conversion to int.
IntnArgUint16(si, sj) ==
    IF si.Weight = 0 /\ sj.Weight = 0 THEN 2
    ELSE (si.Weight + sj.Weight) % 65536

\* The argument byPriority.Less passes to rand.Intn for two records of
\* equal priority (the weights are added as int and cannot wrap).
IntnArg(si, sj) ==
    IF si.Weight = 0 /\ sj.Weight = 0 THEN 2 ELSE si.Weight + sj.Weight

\* The values rand.Intn may return in byPriority.Less ({0} when the
\* priorities differ and nothing is drawn).
Draws(si, sj) ==
    IF si.Priority # sj.Priority THEN {0} ELSE 0..(IntnArg(si, sj) - 1)

\* byPriority.Less mutated to prefer the higher priority number.
byPriorityLessDescending(si, sj, r) ==
    IF sj.Priority < si.Priority THEN TRUE
    ELSE IF si.Priority < sj.Priority THEN FALSE
    ELSE IF si.Weight = 0 /\ sj.Weight = 0 THEN r = 0
    ELSE r < si.Weight

\* byPriority.Less(i, j) when rand.Intn returns r.
byPriorityLess(si, sj, r) ==
    IF si.Priority < sj.Priority THEN TRUE
    ELSE IF sj.Priority < si.Priority THEN FALSE
    ELSE IF si.Weight = 0 /\ sj.Weight = 0 THEN r = 0
    ELSE r < si.Weight

\* byOrder.Less mutated to compare the preference before the order.
byOrderLessPreferenceFirst(si, sj) ==
    IF si.Preference < sj.Preference THEN TRUE
    ELSE IF sj.Preference < si.Preference THEN FALSE
    ELSE si.Order < sj.Order

\* byOrder.Less(i, j).
byOrderLess(si, sj) ==
    IF si.Order < sj.Order THEN TRUE
    ELSE IF sj.Order < si.Order THEN FALSE
    ELSE si.Preference < sj.Preference

\* The results data.Less(i, j) may have, by the type of the slice sorted.
LessOutcomes(si, sj) ==
    IF si.type = "SRV"
    THEN {byPriorityLess(si, sj, r) : r \in Draws(si, sj)}
    ELSE {byOrderLess(si, sj)}

\* data.Swap(i, j).
Swap(s, i, j) == [s EXCEPT ![i] = s[j], ![j] = s[i]]

\* insertionSort, inner loop: for j > a && data.Less(j, j-1) { Swap; j-- };
\* the set of its results over the outcomes of Less.
RECURSIVE SiftDown(_, _)
SiftDown(s, j) ==
    IF j > 1
    THEN UNION {IF less THEN SiftDown(Swap(s, j, j - 1), j - 1) ELSE {s} :
                   less \in LessOutcomes(s[j], s[j - 1])}
    ELSE {s}

\* insertionSort, outer loop from index i on.
RECURSIVE InsertionSort(_, _)
InsertionSort(s, i) ==
    IF i > Len(s) THEN {s}
    ELSE UNION {InsertionSort(t, i + 1) : t \in SiftDown(s, i)}

\* sort.Sort on a slice of at most 6 elements: an insertion sort (the
\* quicksort and the gap-6 shell pass start at 13 and 7 elements).
SortOutcomes(s) == InsertionSort(s, 2)

(***************************************************************************)
(* DNSSDHintGenerator.Generate and resolveDNS.                             *)
(***************************************************************************)
getDNSSDQuery(resolver, domain) == discoveryServiceDNSName \o domain

getDNSNAPTRQuery(resolver, domain) == domain

\* getDomainName: the hostname split after its first dot; an error (here
\* the empty sequence of results) when it has no dot.
getDomainName(hostname) ==
    IF Len(hostname) < 2 THEN <<>> ELSE <<Tail(hostname)>>

\* One resolveDNS call still to be made: its arguments.
Call(resolver, query, dnsRR) ==
    [resolver |-> resolver, query |-> query, dnsRR |-> dnsRR]

\* The body of Generate's innermost loop for one resolver and domain.
CallsFor(cfg, resolver, domain) ==
    (IF cfg.EnableSRV
     THEN <<Call(resolver, getDNSSDQuery(resolver, domain), "SRV")>> ELSE <<>>)
    \o (IF cfg.EnableSD
        THEN <<Call(resolver, getDNSSDQuery(resolver, domain), "PTR")>> ELSE <<>>)
    \o (IF cfg.EnableNAPTR
        THEN <<Call(resolver, getDNSNAPTRQuery(resolver, domain), "NAPTR")>>
        ELSE <<>>)

\* Generate's two nested loops, flattened: every resolver, every domain.
RECURSIVE CallsOver(_, _, _, _)
CallsOver(cfg, resolvers, domains, d) ==
    IF resolvers = <<>> THEN <<>>
    ELSE IF d > Len(domains) THEN CallsOver(cfg, Tail(resolvers), domains, 1)
    ELSE CallsFor(cfg, Head(resolvers), domains[d])
             \o CallsOver(cfg, resolvers, domains, d + 1)

\* A resolveDNS activation. phase is its position: "exchange" (in
\* dns.Exchange), "scan" (the loop over result.Answer, n answers done),
\* "chaseSRV" and "chaseNAPTR" (the loops over the sorted batches, at index
\* i, before its query number sub). log is history: the sends and the
\* queries the call has made, each with the record it was made for.
Frame(call) ==
    [resolver |-> call.resolver, query |-> call.query, dnsRR |-> call.dnsRR,
     phase |-> "exchange", n |-> 0, serviceRecords |-> <<>>,
     naptrRecords |-> <<>>, i |-> 1, sub |-> 0, log |-> <<>>]

Top == stack[Len(stack)]

Push(frame, call) == SubSeq(stack, 1, Len(stack) - 1) \o <<frame, Frame(call)>>

ReplaceTop(frame) == [stack EXCEPT ![Len(stack)] = frame]

Pop == SubSeq(stack, 1, Len(stack) - 1)

\* The sends of resolveDNS mutated not to block (a send given up when no
\* receiver is ready): the goroutine goes on while its value is undelivered.
DNSRunningSendGivenUp == gens["DNSSD"].st \in {"running", "sending"}

\* The generator goroutine is not blocked in a send.
DNSRunning == gens["DNSSD"].st = "running"

orchVars == <<pc, outcome, timer, received, serverAddr, fetcherVars>>

\* The DHCP side sends a DNSInfo on dnsServersChan and Generate, at the head
\* of its range loop, receives it and appends the local domain name.
DHCPSendDNSInfo(dnsServer, hostname) ==
    /\ DNSRunning
    /\ dnsPc = "range"
    /\ LET searchDomains == dnsServer.searchDomains \o getDomainName(hostname)
       IN  work' = CallsOver(dnsCfg, dnsServer.resolvers, searchDomains, 1)
    /\ dnsPc' = "loop"
    /\ UNCHANGED <<orchVars, gens, dnsCfg, zone, stack, nRecords>>

\* Generate makes its next resolveDNS call.
GenerateCall ==
    /\ DNSRunning
    /\ dnsPc = "loop"
    /\ stack = <<>>
    /\ work # <<>>
    /\ stack' = <<Frame(Head(work))>>
    /\ work' = Tail(work)
    /\ UNCHANGED <<orchVars, gens, dnsCfg, zone, dnsPc, nRecords>>

\* The loops over resolvers and domains are done: back to the range loop.
GenerateLoopEnd ==
    /\ DNSRunning
    /\ dnsPc = "loop"
    /\ stack = <<>>
    /\ work = <<>>
    /\ dnsPc' = "range"
    /\ UNCHANGED <<orchVars, gens, dnsCfg, zone, work, stack, nRecords>>

\* A failed exchange mutated to end the whole resolution pass: the error is
\* passed up through every caller and out of Generate's loops.
ExchangeFailAbortsPass ==
    /\ DNSRunning
    /\ stack # <<>>
    /\ Top.phase = "exchange"
    /\ stack' = <<>>
    /\ work' = <<>>
    /\ UNCHANGED <<orchVars, gens, dnsCfg, zone, dnsPc, nRecords>>

\* dns.Exchange fails: resolveDNS logs and returns.
ExchangeFail ==
    /\ DNSRunning
    /\ stack # <<>>
    /\ Top.phase = "exchange"
    /\ stack' = Pop
    /\ UNCHANGED <<orchVars, gens, dnsCfg, zone, dnsPc, work, nRecords>>

\* dns.Exchange returns a response.
ExchangeOK ==
    /\ DNSRunning
    /\ stack # <<>>
    /\ Top.phase = "exchange"
    /\ stack' = ReplaceTop([Top EXCEPT !.phase = "scan"])
    /\ UNCHANGED <<orchVars, gens, dnsCfg, zone, dnsPc, work, nRecords>>

\* The NAPTR case of the scan mutated to keep every NAPTR record.
KeepNAPTRAnyService(result) == result.type = "NAPTR"

\* The NAPTR case of the scan keeps a record only for the discovery service.
KeepNAPTR(result) == result.Service = discoveryDDDSDNSName

\* What the log keeps of a send or a query made for a record.
LogEntry(rec, query, dnsRR) == [rec |-> rec, query |-> query, dnsRR |-> dnsRR]

\* The loop over result.Answer, one answer.
ScanAnswer(answer) ==
    /\ DNSRunning
    /\ stack # <<>>
    /\ Top.phase = "scan"
    /\ LET next == [Top EXCEPT !.n = @ + 1]
           sent == [next EXCEPT !.log = Append(@, LogEntry(answer, <<>>, "send"))]
       IN  \/ /\ answer.type = "PTR"
              /\ stack' = Push([next EXCEPT !.log =
                                   Append(@, LogEntry(answer, answer.Ptr, "SRV"))],
                               Call(Top.resolver, answer.Ptr, "SRV"))
              /\ gens' = gens
           \/ /\ answer.type = "NAPTR"
              /\ stack' = IF KeepNAPTR(answer)
                          THEN ReplaceTop([next EXCEPT !.naptrRecords = Append(@, answer)])
                          ELSE ReplaceTop(next)
              /\ gens' = gens
           \/ /\ answer.type = "SRV"
              /\ stack' = ReplaceTop([next EXCEPT !.serviceRecords = Append(@, answer)])
              /\ gens' = gens
           \/ /\ answer.type = "A"
              /\ gens' = [gens EXCEPT !["DNSSD"] = GenState("sending", Hint(answer.A, 0))]
              /\ stack' = ReplaceTop(sent)
           \/ /\ answer.type = "AAAA"
              /\ gens' = [gens EXCEPT !["DNSSD"] = GenState("sending", Hint(answer.AAAA, 0))]
              /\ stack' = ReplaceTop(sent)
    /\ UNCHANGED <<orchVars, dnsCfg, zone, dnsPc, work>>

\* The servers of a Zones site deliver one more answer, any of the site's
\* records, to the call that is scanning.
StreamedAnswer(answer) ==
    /\ nRecords < MaxRecords
    /\ nRecords' = nRecords + 1
    /\ ScanAnswer(answer)

\* The end of the scan mutated to go to the NAPTR batch first, as if the
\* block for naptrRecords stood before the one for serviceRecords.
ScanEndNAPTRFirst ==
    /\ DNSRunning
    /\ stack # <<>>
    /\ Top.phase = "scan"
    /\ \E sorted \in SortOutcomes(Top.naptrRecords) :
          stack' = ReplaceTop([Top EXCEPT !.phase = "chaseNAPTR",
                                          !.naptrRecords = sorted,
                                          !.i = 1, !.sub = 0])
    /\ UNCHANGED <<orchVars, gens, dnsCfg, zone, dnsPc, work, nRecords>>

\* The answers are exhausted; sort.Sort(byPriority(serviceRecords)) when
\* there are service records.
ScanEnd ==
    /\ DNSRunning
    /\ stack # <<>>
    /\ Top.phase = "scan"
    /\ \E sorted \in SortOutcomes(Top.serviceRecords) :
          stack' = ReplaceTop([Top EXCEPT !.phase = "chaseSRV",
                                          !.serviceRecords = sorted,
                                          !.i = 1, !.sub = 0])
    /\ UNCHANGED <<orchVars, gens, dnsCfg, zone, dnsPc, work, nRecords>>

\* The loop over serviceRecords mutated to query A before AAAA.
SRVChaseTypesSwapped == <<"A", "AAAA">>

\* The record types the loop over serviceRecords queries for a target.
SRVChaseTypes == <<"AAAA", "A">>

\* The loop over the sorted serviceRecords: the next resolveDNS call.
ChaseSRV ==
    /\ DNSRunning
    /\ stack # <<>>
    /\ Top.phase = "chaseSRV"
    /\ Top.i <= Len(Top.serviceRecords)
    /\ LET answer == Top.serviceRecords[Top.i]
           dnsRR == SRVChaseTypes[Top.sub + 1]
           last == Top.sub + 1 = Len(SRVChaseTypes)
           frame == [Top EXCEPT !.i = IF last THEN @ + 1 ELSE @,
                                !.sub = IF last THEN 0 ELSE @ + 1,
                                !.log = Append(@, LogEntry(answer, answer.Target,
                                                           dnsRR))]
       IN  stack' = Push(frame, Call(Top.resolver, answer.Target, dnsRR))
    /\ UNCHANGED <<orchVars, gens, dnsCfg, zone, dnsPc, work, nRecords>>

\* The loop over serviceRecords is done; sort.Sort(byOrder(naptrRecords))
\* when there are NAPTR records.
ChaseSRVEnd ==
    /\ DNSRunning
    /\ stack # <<>>
    /\ Top.phase = "chaseSRV"
    /\ Top.i > Len(Top.serviceRecords)
    /\ \E sorted \in SortOutcomes(Top.naptrRecords) :
          stack' = ReplaceTop([Top EXCEPT !.phase = "chaseNAPTR",
                                          !.naptrRecords = sorted,
                                          !.i = 1, !.sub = 0])
    /\ UNCHANGED <<orchVars, gens, dnsCfg, zone, dnsPc, work, nRecords>>

\* The switch on answer.Flags mutated to treat unknown flags like empty
\* ones (a default case that re-issues NAPTR).
NAPTRChaseTypesDefault(flags) ==
    CASE flags = "A" -> <<"AAAA", "A">>
      [] flags = "S" -> <<"SRV">>
      [] OTHER       -> <<"NAPTR">>

\* The switch on answer.Flags: the record types queried on the replacement.
NAPTRChaseTypes(flags) ==
    CASE flags = ""  -> <<"NAPTR">>
      [] flags = "A" -> <<"AAAA", "A">>
      [] flags = "S" -> <<"SRV">>
      [] OTHER       -> <<>>

\* The loop over naptrRecords mutated to step past a record whose
\* replacement is the name the call itself asked about.
ChaseNAPTRSkipsOwnName ==
    /\ DNSRunning
    /\ stack # <<>>
    /\ Top.phase = "chaseNAPTR"
    /\ Top.i <= Len(Top.naptrRecords)
    /\ LET answer == Top.naptrRecords[Top.i]
           types == IF answer.Replacement = Top.query THEN <<>>
                    ELSE NAPTRChaseTypes(answer.Flags)
       IN  IF types = <<>>
           THEN stack' = ReplaceTop([Top EXCEPT !.i = @ + 1])
           ELSE LET dnsRR == types[Top.sub + 1]
                    last == Top.sub + 1 = Len(types)
                    frame == [Top EXCEPT !.i = IF last THEN @ + 1 ELSE @,
                                         !.sub = IF last THEN 0 ELSE @ + 1,
                                         !.log = Append(@, LogEntry(answer,
                                                                    answer.Replacement,
                                                                    dnsRR))]
                IN  stack' = Push(frame, Call(Top.resolver, answer.Replacement, dnsRR))
    /\ UNCHANGED <<orchVars, gens, dnsCfg, zone, dnsPc, work, nRecords>>

\* The loop over the sorted naptrRecords: the next resolveDNS call, or the
\* step past a record whose flags match no case.
ChaseNAPTR ==
    /\ DNSRunning
    /\ stack # <<>>
    /\ Top.phase = "chaseNAPTR"
    /\ Top.i <= Len(Top.naptrRecords)
    /\ LET answer == Top.naptrRecords[Top.i]
           types == NAPTRChaseTypes(answer.Flags)
       IN  IF types = <<>>
           THEN stack' = ReplaceTop([Top EXCEPT !.i = @ + 1])
           ELSE LET dnsRR == types[Top.sub + 1]
                    last == Top.sub + 1 = Len(types)
                    frame == [Top EXCEPT !.i = IF last THEN @ + 1 ELSE @,
                                         !.sub = IF last THEN 0 ELSE @ + 1,
                                         !.log = Append(@, LogEntry(answer,
                                                                    answer.Replacement,
                                                                    dnsRR))]
                IN  stack' = Push(frame, Call(Top.resolver, answer.Replacement, dnsRR))
    /\ UNCHANGED <<orchVars, gens, dnsCfg, zone, dnsPc, work, nRecords>>

\* resolveDNS returns at its end.
Return ==
    /\ DNSRunning
    /\ stack # <<>>
    /\ Top.phase = "chaseNAPTR"
    /\ Top.i > Len(Top.naptrRecords)
    /\ stack' = Pop
    /\ UNCHANGED <<orchVars, gens, dnsCfg, zone, dnsPc, work, nRecords>>

(***************************************************************************)
(* The bootstrapper process.                                               *)
(***************************************************************************)
Next ==
    \/ Launch
    \/ \E g \in Generators : \E h \in HintsOf(g) : GenSend(g, h)
    \/ TimerFire
    \/ \E g \in Generators : ReceiveHint(g)
    \/ Timeout
    \/ PullTopology
    \/ PullTRCs
    \/ TarEOF
    \/ TarError
    \/ \E hdrName \in EntryNames : TarRegular(hdrName)
    \/ TarDirectory
    \/ TarOtherType

Spec == Init /\ [][Next]_vars

\* The steps of the two fetches: each HTTP request, and with it the read of
\* its response, ends by its own deadline.
FetchStep ==
    \/ PullTopology
    \/ PullTRCs
    \/ TarEOF
    \/ TarError
    \/ \E hdrName \in EntryNames : TarRegular(hdrName)
    \/ TarDirectory
    \/ TarOtherType

\* Scheduling of the orchestrator: tryBootstrapping is entered, the deadline
\* passes, the select takes a case that is ready and the fetches end.
\* Nothing is assumed of the generators.
SpecFair ==
    /\ Spec
    /\ WF_vars(Launch)
    /\ WF_vars(TimerFire)
    /\ WF_vars(SelectReceive \/ Timeout)
    /\ WF_vars(FetchStep)

(***************************************************************************)
(* The DNS-SD generator and the orchestrator's select. The run starts with *)
(* the goroutines launched and the deadline passed, so that the select may *)
(* take either of its cases at any moment; the other generators stay       *)
(* silent and the fetch steps, which touch nothing of the generator, are   *)
(* left out.                                                               *)
(***************************************************************************)
InitDNS ==
    /\ pc = "Racing"
    /\ outcome = Running
    /\ timer = "fired"
    /\ gens = [g \in Generators |-> GenState("running", NoHint)]
    /\ received = <<>>
    /\ serverAddr = NoHint
    /\ topoCalls = <<>>
    /\ trcCalls = <<>>
    /\ topoResp = NoResponse
    /\ topoFile = "absent"
    /\ nEntries = 0
    /\ certs = {}
    /\ trcPaths = {}
    /\ dnsCfg \in DNSConfs
    /\ zone \in Zones
    /\ dnsPc = "range"
    /\ work = <<>>
    /\ stack = <<>>
    /\ nRecords = 0

NextDNS ==
    \/ ReceiveHint("DNSSD")
    \/ Timeout
    \/ \E dnsServer \in DNSInfos, hostname \in Hostnames :
          DHCPSendDNSInfo(dnsServer, hostname)
    \/ GenerateCall
    \/ GenerateLoopEnd
    \/ ExchangeFail
    \/ ExchangeOK
    \/ \E answer \in zone : StreamedAnswer(answer)
    \/ ScanEnd
    \/ ChaseSRV
    \/ ChaseSRVEnd
    \/ ChaseNAPTR
    \/ Return

SpecDNS == InitDNS /\ [][NextDNS]_vars

\* The steps the generator goroutine takes on its own, the return of a DNS
\* exchange, and the orchestrator's select.
GeneratorStep ==
    \/ GenerateCall
    \/ GenerateLoopEnd
    \/ ScanEnd
    \/ ChaseSRV
    \/ ChaseSRVEnd
    \/ ChaseNAPTR
    \/ Return

ExchangeReturns == ExchangeFail \/ ExchangeOK

SelectStep == ReceiveHint("DNSSD") \/ Timeout

\* Scheduling: a goroutine that can run does run, dns.Exchange returns
\* within its own timeout, and the select takes a case that is ready.
SpecDNSFair ==
    /\ SpecDNS
    /\ WF_vars(GeneratorStep)
    /\ WF_vars(ExchangeReturns)
    /\ WF_vars(SelectStep)

(***************************************************************************)
(* The generator against servers that answer by name (every exchange       *)
(* succeeds and returns the answers of the question asked).                *)
(***************************************************************************)
\* result.Answer of the call that is scanning.
ServerAnswers ==
    IF stack # <<>> THEN Response(zone, Top.query, Top.dnsRR) ELSE <<>>

\* The loop over result.Answer takes the next answer.
ScanNext ==
    /\ stack # <<>>
    /\ Len(stack) < MaxDepth
    /\ Top.n < Len(ServerAnswers)
    /\ ScanAnswer(ServerAnswers[Top.n + 1])
    /\ UNCHANGED nRecords

\* The loop over result.Answer is past the last answer.
ScanDone ==
    /\ stack # <<>>
    /\ Top.n = Len(ServerAnswers)
    /\ ScanEnd

\* The chase loops, followed down to MaxDepth nested calls.
ChaseStep ==
    /\ Len(stack) < MaxDepth
    /\ (ChaseSRV \/ ChaseNAPTR)

\* The generator's steps against such servers.
NamedServerStep ==
    \/ \E dnsServer \in DNSInfos, hostname \in Hostnames :
          DHCPSendDNSInfo(dnsServer, hostname)
    \/ GenerateCall
    \/ GenerateLoopEnd
    \/ ExchangeOK
    \/ ScanNext
    \/ ScanDone
    \/ ChaseStep
    \/ ChaseSRVEnd
    \/ Return

\* What the scheduler and the servers owe the generator: every step but
\* the arrival of a DNSInfo, which is up to the DHCP side.
NamedServerProgress ==
    \/ GenerateCall
    \/ GenerateLoopEnd
    \/ ExchangeOK
    \/ ScanNext
    \/ ScanDone
    \/ ChaseStep
    \/ ChaseSRVEnd
    \/ Return

(***************************************************************************)
(* The race: the select of tryBootstrapping, the Mock generator and the    *)
(* DNS-SD generator against servers that answer by name. The fetch steps   *)
(* are left out: they touch nothing of the generators.                     *)
(***************************************************************************)
InitRace ==
    /\ pc = "Racing"
    /\ outcome = Running
    /\ timer = "armed"
    /\ gens = [g \in Generators |-> GenState("running", NoHint)]
    /\ received = <<>>
    /\ serverAddr = NoHint
    /\ topoCalls = <<>>
    /\ trcCalls = <<>>
    /\ topoResp = NoResponse
    /\ topoFile = "absent"
    /\ nEntries = 0
    /\ certs = {}
    /\ trcPaths = {}
    /\ dnsCfg \in DNSConfs
    /\ zone \in RaceSites
    /\ dnsPc = "range"
    /\ work = <<>>
    /\ stack = <<>>
    /\ nRecords = 0

RacingGenerators == {"Mock", "DNSSD"}

SelectReceives == \E g \in RacingGenerators : ReceiveHint(g)

NextRace ==
    \/ TimerFire
    \/ \E h \in HintsOf("Mock") : GenSend("Mock", h)
    \/ SelectReceives
    \/ Timeout
    \/ NamedServerStep

SpecRace == InitRace /\ [][NextRace]_vars

\* Scheduling: the deadline passes, the select takes a case that is ready,
\* the generator goroutine runs when it can and its exchanges return.
SpecRaceFair ==
    /\ SpecRace
    /\ WF_vars(TimerFire)
    /\ WF_vars(SelectReceives \/ Timeout)
    /\ WF_vars(NamedServerProgress)

(***************************************************************************)
(* The generator on its own, with a reader of the channel that receives    *)
(* every address sent (the orchestrator before its deadline would receive  *)
(* one; a caller of Generate in a test receives them all).                 *)
(***************************************************************************)
InitChase ==
    /\ pc = "Racing"
    /\ outcome = Running
    /\ timer = "armed"
    /\ gens = [g \in Generators |-> GenState("running", NoHint)]
    /\ received = <<>>
    /\ serverAddr = NoHint
    /\ topoCalls = <<>>
    /\ trcCalls = <<>>
    /\ topoResp = NoResponse
    /\ topoFile = "absent"
    /\ nEntries = 0
    /\ certs = {}
    /\ trcPaths = {}
    /\ dnsCfg \in DNSConfs
    /\ zone \in ChaseSites
    /\ dnsPc = "range"
    /\ work = <<>>
    /\ stack = <<>>
    /\ nRecords = 0

\* The send of resolveDNS completes: the reader took the value.
ReaderReceives ==
    /\ gens["DNSSD"].st = "sending"
    /\ gens' = [gens EXCEPT !["DNSSD"] = GenState("running", NoHint)]
    /\ UNCHANGED <<orchVars, dnsVars>>

NextChase == ReaderReceives \/ NamedServerStep

SpecChase == InitChase /\ [][NextChase]_vars

\* Scheduling: the reader always receives, the generator goroutine runs
\* when it can and its exchanges return.
SpecChaseFair ==
    /\ SpecChase
    /\ WF_vars(ReaderReceives)
    /\ WF_vars(NamedServerProgress)

(***************************************************************************)
(* The same race when an exchange may also fail.                           *)
(***************************************************************************)
NextFlaky == NextRace \/ ExchangeFail

SpecFlaky == InitRace /\ [][NextFlaky]_vars

(***************************************************************************)
(* sort.Sort(byPriority(serviceRecords)) on its own: a call that has       *)
(* collected a batch of SRV records from one response sorts it.            *)
(***************************************************************************)
\* The largest value of the uint16 fields Priority and Weight of dns.SRV.
MaxUint16 == 65535

SmallRecords ==
    {SRV(p, w, DiscoveryPort, Host1) : p \in 0..1, w \in 0..MaxWeight}

ExtremeRecords ==
    {SRV(p, w, DiscoveryPort, Host1) : p \in {0, MaxUint16}, w \in {0, 1, MaxUint16}}

\* The batches: up to MaxBatch records of small weights, and every pair of
\* records, those of extreme priorities and weights included.
Batches ==
    UNION {[1..k -> SmallRecords] : k \in 1..MaxBatch}
        \cup [1..2 -> SmallRecords \cup ExtremeRecords]

InitSort ==
    /\ pc = "Racing"
    /\ outcome = Running
    /\ timer = "armed"
    /\ gens = [g \in Generators |-> GenState("running", NoHint)]
    /\ received = <<>>
    /\ serverAddr = NoHint
    /\ topoCalls = <<>>
    /\ trcCalls = <<>>
    /\ topoResp = NoResponse
    /\ topoFile = "absent"
    /\ nEntries = 0
    /\ certs = {}
    /\ trcPaths = {}
    /\ dnsCfg = [EnableSD |-> FALSE, EnableNAPTR |-> FALSE, EnableSRV |-> TRUE]
    /\ zone = {}
    /\ dnsPc = "loop"
    /\ work = <<>>
    /\ \E batch \in Batches :
          stack = <<[Frame(Call("192.0.2.53", SDName, "SRV")) EXCEPT
                        !.phase = "scan", !.n = Len(batch),
                        !.serviceRecords = batch]>>
    /\ nRecords = 0

NextSort == ScanEnd

SpecSort == InitSort /\ [][NextSort]_vars

(***************************************************************************)
(* The orchestrator's state machine of the design: Idle, Racing, Resolved  *)
(* (an address was accepted) and TimedOut.                                 *)
(***************************************************************************)
OrchestratorState ==
    IF pc \in {"Idle", "Racing"} THEN pc
    ELSE IF outcome = TimedOut THEN "TimedOut"
    ELSE "Resolved"

\* The topology file is as it was before the run.
TopologyUntouched == topoFile \in InitialTopoFiles

\* The errors of pullTopology that precede its write.
TopologyErrorsBeforeWrite ==
    {"HTTP request failed", "Status not OK", "Unable to read from response body",
     "unable to parse RWTopology from JSON bytes"}

\* The addresses the fetch steps were invoked with.
FetchedFrom == {topoCalls[i] : i \in 1..Len(topoCalls)}
                   \cup {trcCalls[i] : i \in 1..Len(trcCalls)}

(***************************************************************************)
(* Claims about the orchestrator and the fetcher, checked under Spec.      *)
(***************************************************************************)
\* C1: a run that takes the deadline branch of the select ends TimedOut
\* having received nothing from the channel and having invoked neither
\* pullTopology nor pullTRCs; and a run that returns without having received
\* an address returned the "bootstrapper timed out" error.
C1_TimeoutWithoutFetch ==
    /\ outcome = TimedOut =>
          /\ pc = "Returned"
          /\ received = <<>>
          /\ topoCalls = <<>>
          /\ trcCalls = <<>>
          /\ TopologyUntouched
          /\ certs = {}
    /\ (pc = "Returned" /\ received = <<>>) => outcome = TimedOut
    /\ (pc \notin {"Idle", "Racing"} /\ received = <<>>) => pc = "Returned"

\* C1 witness: the run timed out while a generator was blocked in its send.
C1_Witness ==
    /\ outcome = TimedOut
    /\ \E g \in Generators : gens[g].st = "sending"

\* C2: at most one address is received, each fetch step is invoked at most
\* once, pullTopology before pullTRCs and both with the first received IP;
\* a failed fetch step ends the run with its error.
C2_SingleAddressSingleFetch ==
    /\ Len(received) <= 1
    /\ Len(topoCalls) <= 1
    /\ Len(trcCalls) <= 1
    /\ topoCalls # <<>> => (received # <<>> /\ topoCalls[1].IP = received[1].IP)
    /\ trcCalls # <<>> => (topoCalls # <<>> /\ trcCalls[1] = topoCalls[1])
    /\ outcome.by \in {"pullTopology", "pullTRCs"} =>
          (pc = "Returned" /\ Len(received) = 1)
    /\ (pc \notin {"Idle", "Racing"} /\ received # <<>>) =>
          pc \in {"pullTopology", "pullTRCs", "tarNext", "Returned"}

\* C2 witness: a fetch step failed against the first address while another
\* generator is offering one.
C2_Witness ==
    /\ outcome.by \in {"pullTopology", "pullTRCs"}
    /\ Len(received) = 1
    /\ \E g \in Generators : gens[g].st = "sending" /\ gens[g].val # received[1]

\* C3: every address handed to a fetch step has the IP of the first received
\* hint, the discovery port when the hint's port is 0 and the hint's port
\* otherwise; the mock hint 10.0.0.5:0 is fetched from 10.0.0.5:DiscoveryPort.
C3_PortSubstituted ==
    /\ \A a \in FetchedFrom :
          /\ received # <<>>
          /\ a.IP = received[1].IP
          /\ received[1].Port = 0 => a.Port = DiscoveryPort
          /\ received[1].Port # 0 => a.Port = received[1].Port
    /\ (topoCalls # <<>> /\ received[1] = Hint("10.0.0.5", 0)) =>
          topoCalls[1] = Hint("10.0.0.5", DiscoveryPort)

\* C3 witness: the mock hint 10.0.0.5:0 was received with the other
\* generators silent, and both fetch steps ran against 10.0.0.5:DiscoveryPort
\* in a run that did not time out.
C3_Witness ==
    /\ received = <<Hint("10.0.0.5", 0)>>
    /\ \A g \in Generators : gens[g].st = "running"
    /\ topoCalls = <<Hint("10.0.0.5", DiscoveryPort)>>
    /\ trcCalls = <<Hint("10.0.0.5", DiscoveryPort)>>
    /\ outcome = Success

\* C4 (as claimed): when pullTRCs aborts on a directory entry, no file of
\* that archive has been written.
C4_DirectoryAbortWritesNothing ==
    outcome = Failure("pullTRCs", "directory found") => certs = {}

\* C5: the topology file is changed only after a 200 response whose body was
\* read in full and parsed as a valid topology; a request failure, a non-200
\* status, a read failure or a parse failure makes pullTopology return its
\* error with the file untouched, and the run returns it without pullTRCs.
C5_TopologyValidatedBeforeWrite ==
    /\ ~TopologyUntouched =>
          /\ topoResp.status = 200
          /\ topoResp.readOK
          /\ ValidTopology(topoResp.body)
    /\ (topoCalls # <<>> /\ pc # "pullTopology"
          /\ (topoResp.status # 200 \/ ~topoResp.readOK
                \/ ~ValidTopology(topoResp.body))) =>
          /\ outcome.by = "pullTopology"
          /\ outcome.err \in TopologyErrorsBeforeWrite
    /\ (outcome.by = "pullTopology" /\ outcome.err \in TopologyErrorsBeforeWrite) =>
          TopologyUntouched
    /\ outcome.by = "pullTopology" =>
          (pc = "Returned" /\ trcCalls = <<>> /\ certs = {})

\* C5 witness: a 200 response with an unparseable body made the run fail.
C5_Witness ==
    /\ topoResp = [status |-> 200, body |-> "garbage", readOK |-> TRUE]
    /\ outcome = Failure("pullTopology", "unable to parse RWTopology from JSON bytes")

\* C6 (as claimed): every path passed to writeTarEntry is a direct child of
\* <SciondConfigDir>/certs, and no regular-file entry is fatal because of
\* its name (a store error only follows a failed write to such a child).
C6_PathsAreCertsChildren ==
    \A trcPath \in trcPaths : DirectChildOfCerts(trcPath)

(***************************************************************************)
(* Claims about the DNS-SD resolution engine, checked under SpecDNS.       *)
(***************************************************************************)
Frames == {stack[k] : k \in 1..Len(stack)}

RECURSIVE Concat(_)
Concat(seqs) == IF seqs = <<>> THEN <<>> ELSE Head(seqs) \o Concat(Tail(seqs))

\* The entries of a frame's log issued for records of one type.
LogOf(frame, type) == SelectSeq(frame.log, LAMBDA e : e.rec.type = type)

\* The service records a frame's chase loop is done with.
SRVDone(frame) ==
    IF frame.phase = "chaseSRV" THEN frame.i - 1
    ELSE IF frame.phase = "chaseNAPTR" THEN Len(frame.serviceRecords)
    ELSE 0

\* The NAPTR records a frame's chase loop is done with.
NAPTRDone(frame) == IF frame.phase = "chaseNAPTR" THEN frame.i - 1 ELSE 0

\* A frame waiting for the call it made, in its scan or in a chase loop:
\* that call is the last query of its log.
CallsMatchLog ==
    \A k \in 1..(Len(stack) - 1) :
        stack[k].phase \in {"scan", "chaseSRV", "chaseNAPTR"} /\
            /\ stack[k].log # <<>>
            /\ LET e == stack[k].log[Len(stack[k].log)]
               IN  /\ stack[k + 1].query = e.query
                   /\ stack[k + 1].dnsRR = e.dnsRR
                   /\ stack[k + 1].resolver = stack[k].resolver

\* Two sequences hold the same records the same number of times.
SameRecords(s, t) ==
    /\ Len(s) = Len(t)
    /\ \A x \in {s[k] : k \in 1..Len(s)} \cup {t[k] : k \in 1..Len(t)} :
          Cardinality({k \in 1..Len(s) : s[k] = x})
              = Cardinality({k \in 1..Len(t) : t[k] = x})

\* C7: in every resolveDNS call, the service records are chased in
\* non-decreasing priority, whatever rand.Intn returned during the sort:
\* no query for a record of higher priority number precedes a query for a
\* record of lower priority number, and each query goes to its record's
\* target.
C7_SRVChasedByPriority ==
    /\ CallsMatchLog
    /\ \A frame \in Frames :
          LET srvLog == LogOf(frame, "SRV")
          IN  /\ \A a, b \in 1..Len(srvLog) :
                    a < b => srvLog[a].rec.Priority <= srvLog[b].rec.Priority
              /\ \A a \in 1..Len(srvLog) : srvLog[a].query = srvLog[a].rec.Target
              /\ \A a \in 1..SRVDone(frame) : \A b \in 1..Len(frame.serviceRecords) :
                    a < b => frame.serviceRecords[a].Priority
                                 <= frame.serviceRecords[b].Priority

\* C7 witness: a call has chased three service records, two of them of equal
\* priority with non-zero weights, the lighter one drawn first, and one of a
\* higher priority number.
C7_Witness ==
    \E frame \in Frames :
        /\ frame.phase = "chaseNAPTR"
        /\ Len(frame.serviceRecords) = 3
        /\ Len(LogOf(frame, "SRV")) = 6
        /\ frame.serviceRecords[1].Priority = frame.serviceRecords[2].Priority
        /\ frame.serviceRecords[1].Weight > 0
        /\ frame.serviceRecords[1].Weight < frame.serviceRecords[2].Weight
        /\ frame.serviceRecords[3].Priority > frame.serviceRecords[2].Priority

\* A call holds service records it has not chased yet.
SRVPending ==
    \E frame \in Frames :
        \/ frame.phase = "scan" /\ frame.serviceRecords # <<>>
        \/ frame.phase = "chaseSRV" /\ frame.i <= Len(frame.serviceRecords)

\* C8 (as claimed): every service record collected from a response is
\* eventually chased.
C8_EveryRecordEventuallyChased == SRVPending ~> ~SRVPending

\* The queries the SRV loop has issued once it is done with n records and
\* has issued the first sub queries of the next one.
ExpectedSRVLog(frame) ==
    LET n == SRVDone(frame)
        entry(j, dnsRR) == [rec |-> frame.serviceRecords[j],
                            query |-> frame.serviceRecords[j].Target,
                            dnsRR |-> dnsRR]
    IN  Concat([j \in 1..n |-> <<entry(j, "AAAA"), entry(j, "A")>>])
            \o (IF frame.phase = "chaseSRV" /\ frame.sub = 1
                THEN <<entry(n + 1, "AAAA")>> ELSE <<>>)

\* The sort at the end of the scan keeps every collected service record.
SortKeepsServiceRecords ==
    \A k \in 1..Len(stack) :
        (k <= Len(stack') /\ stack[k].phase = "scan" /\ stack'[k].phase = "chaseSRV")
            => SameRecords(stack[k].serviceRecords, stack'[k].serviceRecords)

\* A call leaves its loop over the service records only past the last one.
SRVLoopLeftWhenDone ==
    \A k \in 1..Len(stack) :
        (/\ stack[k].phase = "chaseSRV"
         /\ (k > Len(stack') \/ stack'[k].phase # "chaseSRV"))
            => /\ stack[k].i = Len(stack[k].serviceRecords) + 1
               /\ stack[k].sub = 0

\* C8 (amended): the ordering step keeps every collected service record;
\* the loop over them issues, record by record in the sorted order, an AAAA
\* query and then an A query on the record's target; and a call that has
\* left that loop, as every call that returns has, has chased them all.
C8_CollectedRecordsChased ==
    /\ [][SortKeepsServiceRecords]_vars
    /\ [](/\ CallsMatchLog
          /\ \A frame \in Frames :
                /\ LogOf(frame, "SRV") = ExpectedSRVLog(frame)
                /\ frame.phase = "exchange" => frame.log = <<>>)
    /\ [][SRVLoopLeftWhenDone]_vars

\* C8 witness: a call returned to its caller's SRV loop after an address was
\* sent, and the caller has chased both of its two service records.
C8_Witness ==
    /\ received # <<>>
    /\ \E frame \in Frames :
          /\ frame.phase = "chaseNAPTR"
          /\ Len(frame.serviceRecords) = 2
          /\ Len(LogOf(frame, "SRV")) = 4

\* The order of NAPTR processing: (order, preference), lexicographically.
NaptrLeq(x, y) ==
    \/ x.Order < y.Order
    \/ x.Order = y.Order /\ x.Preference <= y.Preference

\* C9: in every resolveDNS call the collected NAPTR records are processed
\* in non-decreasing (order, preference), compared lexicographically.
C9_NAPTRProcessedInOrder ==
    \A frame \in Frames :
        LET naptrLog == LogOf(frame, "NAPTR")
        IN  /\ \A a, b \in 1..Len(naptrLog) :
                  a < b => NaptrLeq(naptrLog[a].rec, naptrLog[b].rec)
            /\ \A a \in 1..NAPTRDone(frame) : \A b \in 1..Len(frame.naptrRecords) :
                  a < b => NaptrLeq(frame.naptrRecords[a], frame.naptrRecords[b])

\* C9 witness: a call has processed three NAPTR records of three different
\* (order, preference) pairs.
C9_Witness ==
    \E frame \in Frames :
        /\ frame.phase = "chaseNAPTR"
        /\ frame.i = 4
        /\ Cardinality({<<frame.naptrRecords[k].Order, frame.naptrRecords[k].Preference>> :
                           k \in 1..3}) = 3

\* The follow-up queries the claim gives for a NAPTR record, by its flags.
FollowUps(flags) ==
    IF flags = "A" THEN <<"AAAA", "A">>
    ELSE IF flags = "S" THEN <<"SRV">>
    ELSE IF flags = "" THEN <<"NAPTR">>
    ELSE <<>>

\* The queries the NAPTR loop has issued once it is done with i-1 records
\* and has issued the first sub queries of the next one.
ExpectedNAPTRLog(frame) ==
    LET n == NAPTRDone(frame)
        entry(j, dnsRR) == [rec |-> frame.naptrRecords[j],
                            query |-> frame.naptrRecords[j].Replacement,
                            dnsRR |-> dnsRR]
        queries(j) == LET types == FollowUps(frame.naptrRecords[j].Flags)
                      IN  [t \in 1..Len(types) |-> entry(j, types[t])]
    IN  Concat([j \in 1..n |-> queries(j)])
            \o (IF frame.phase = "chaseNAPTR" /\ frame.sub > 0
                THEN SubSeq(queries(n + 1), 1, frame.sub) ELSE <<>>)

\* C10: the queries issued for the processed NAPTR records are, record by
\* record, those its flags give on its replacement: AAAA then A for "A", one
\* SRV for "S", one NAPTR for "", none for any other flags.
C10_NAPTRFlagsDispatch ==
    /\ CallsMatchLog
    /\ \A frame \in Frames : LogOf(frame, "NAPTR") = ExpectedNAPTRLog(frame)

\* C10 witness: a call has processed three NAPTR records with flags "A",
\* "S" and one the code does not know.
C10_Witness ==
    \E frame \in Frames :
        /\ frame.phase = "chaseNAPTR"
        /\ frame.i = 4
        /\ {frame.naptrRecords[k].Flags : k \in 1..3} = {"A", "S", "U"}

(***************************************************************************)
(* Claims about the generator in the race, checked under SpecRaceFair.     *)
(***************************************************************************)
\* The orchestrator has received the address ip from the DNS-SD generator.
Delivered(ip) == \E k \in 1..Len(received) : received[k] = Hint(ip, 0)

\* The DNS-SD generator is in the send of the address ip.
Sending(ip) == gens["DNSSD"] = GenState("sending", Hint(ip, 0))

\* The PTR query of the DNS-SD site was answered.
ChainAnswered ==
    /\ zone = ChainSite
    /\ \E frame \in Frames : frame.dnsRR = "PTR" /\ frame.n = 1

LessChance(si, sj) ==
    [num |-> Cardinality({r \in Draws(si, sj) : byPriorityLess(si, sj, r)}),
     den |-> Cardinality(Draws(si, sj))]

\* The insertion sort of sort.Sort run on the order perm of the records
\* recs, every outcome with its chance num/den and the results of its Less
\* calls; inner loop from position j.
RECURSIVE SiftDownChances(_, _, _)
SiftDownChances(recs, e, j) ==
    IF j > 1
    THEN LET c == LessChance(recs[e.perm[j]], recs[e.perm[j - 1]])
             swapped == [perm |-> Swap(e.perm, j, j - 1),
                         num |-> e.num * c.num, den |-> e.den * c.den,
                         path |-> Append(e.path, TRUE)]
             kept == [perm |-> e.perm,
                      num |-> e.num * (c.den - c.num), den |-> e.den * c.den,
                      path |-> Append(e.path, FALSE)]
         IN  (IF c.num > 0 THEN SiftDownChances(recs, swapped, j - 1) ELSE {})
                 \cup (IF c.num < c.den THEN {kept} ELSE {})
    ELSE {e}

RECURSIVE InsertionSortChances(_, _, _)
InsertionSortChances(recs, es, i) ==
    IF i > Len(recs) THEN es
    ELSE InsertionSortChances(recs,
                              UNION {SiftDownChances(recs, e, i) : e \in es},
                              i + 1)

SortChances(recs) ==
    InsertionSortChances(recs,
                         {[perm |-> [k \in 1..Len(recs) |-> k],
                           num |-> 1, den |-> 1, path |-> <<>>]},
                         2)

\* A common denominator of the chances: the product of what Less passes
\* to rand.Intn over all pairs (the sort compares a pair at most once).
RECURSIVE ProductOver(_, _)
ProductOver(recs, pairs) ==
    IF pairs = {} THEN 1
    ELSE LET pr == CHOOSE q \in pairs : TRUE
         IN  Cardinality(Draws(recs[pr[1]], recs[pr[2]]))
                 * ProductOver(recs, pairs \ {pr})

CommonDenominator(recs) ==
    ProductOver(recs, {pr \in (1..Len(recs)) \X (1..Len(recs)) : pr[1] < pr[2]})

RECURSIVE SumOver(_, _)
SumOver(es, denom) ==
    IF es = {} THEN 0
    ELSE LET e == CHOOSE x \in es : TRUE
         IN  e.num * (denom \div e.den) + SumOver(es \ {e}, denom)

\* The chance, in units of 1/CommonDenominator(recs), that record k of the
\* batch is first after the sort.
FirstChance(recs, k) ==
    SumOver({e \in SortChances(recs) : e.perm[1] = k}, CommonDenominator(recs))

RECURSIVE TotalWeight(_)
TotalWeight(recs) ==
    IF recs = <<>> THEN 0 ELSE Head(recs).Weight + TotalWeight(Tail(recs))

\* A batch of one priority tier.
OneTier(recs) == \A a, b \in 1..Len(recs) : recs[a].Priority = recs[b].Priority

\* C12: for every collected batch of one priority tier, each record is
\* first after the sort, and so chased first, with a chance proportional to
\* its weight when some weight of the tier is non-zero, and with the same
\* chance as every other record when all weights are zero.
C12_FirstChasedProportionalToWeight ==
    \A frame \in Frames :
        LET recs == frame.serviceRecords
        IN  (frame.phase = "scan" /\ OneTier(recs) /\ recs # <<>>
                 /\ \A k \in 1..Len(recs) : recs[k].Weight <= MaxWeight) =>
                \A k \in 1..Len(recs) :
                    IF TotalWeight(recs) > 0
                    THEN FirstChance(recs, k) * TotalWeight(recs)
                             = recs[k].Weight * CommonDenominator(recs)
                    ELSE FirstChance(recs, k) * Len(recs)
                             = CommonDenominator(recs)

\* C20: whatever two records of a batch byPriority.Less draws for (a record
\* and itself included, priorities and weights up to 65535), the argument
\* it passes to rand.Intn is at least 1, so that rand.Intn has a value to
\* return and does not panic.
C20_IntnArgumentPositive ==
    \A frame \in Frames :
        LET recs == frame.serviceRecords
        IN  \A a, b \in 1..Len(recs) :
                recs[a].Priority = recs[b].Priority =>
                    /\ IntnArg(recs[a], recs[b]) >= 1
                    /\ Draws(recs[a], recs[b]) # {}

\* C20 witness: a batch of two records of priority 65535, one of weight
\* 65535 and one of weight 1, has been sorted.
C20_Witness ==
    \E frame \in Frames :
        /\ frame.phase = "chaseSRV"
        /\ Len(frame.serviceRecords) = 2
        /\ \A k \in 1..2 : frame.serviceRecords[k].Priority = MaxUint16
        /\ {frame.serviceRecords[k].Weight : k \in 1..2} = {1, MaxUint16}

(***************************************************************************)
(* Claims about failed exchanges, checked under SpecFlaky.                 *)
(***************************************************************************)
\* The innermost call ends and leaves its caller, Generate's remaining
\* calls and the channel as they were.
OnlyInnermostCallEnds ==
    /\ stack' = Pop
    /\ work' = work
    /\ dnsPc' = dnsPc
    /\ gens' = gens
    /\ received' = received

\* A call that is in its exchange ends: the exchange failed.
FailedExchange ==
    /\ stack # <<>>
    /\ Top.phase = "exchange"
    /\ Len(stack') # Len(stack)

\* A call whose response had no answer returns.
EmptyAnswerReturns ==
    /\ stack # <<>>
    /\ Top.phase = "chaseNAPTR"
    /\ Top.n = 0
    /\ Len(stack') # Len(stack)

\* The generator is in a resolution pass and not in a send.
InPass == DNSRunning /\ dnsPc = "loop"

\* C13: a failed exchange ends the call it was made in and nothing else: no
\* send, no further query of that call, the caller and the remaining calls
\* of Generate left exactly as by the return of a call whose response was
\* empty (which has collected, sent and queried nothing); and the pass goes
\* on: the generator always has a next step.
C13_FailedExchangeEndsOnlyThatCall ==
    /\ [][FailedExchange => OnlyInnermostCallEnds]_vars
    /\ [][EmptyAnswerReturns => OnlyInnermostCallEnds]_vars
    /\ [](\A frame \in Frames :
             frame.n = 0 => /\ frame.serviceRecords = <<>>
                            /\ frame.naptrRecords = <<>>
                            /\ frame.log = <<>>)
    /\ [](InPass => ENABLED NamedServerProgress)

\* C13 witness: at the DNS-SD site the AAAA exchange for the SRV target
\* failed and the A query on the same target, its sibling, was still made
\* and answered: the generator is in the send of the A address, the AAAA
\* address never sent.
C13_Witness ==
    /\ zone = ChainSite
    /\ Sending(IPv4Hint)
    /\ received = <<>>
    /\ \E frame \in Frames : frame.dnsRR = "SRV" /\ Len(frame.log) = 2

(***************************************************************************)
(* Claims about the termination of tryBootstrapping, under SpecFair.       *)
(***************************************************************************)
\* tryBootstrapping has returned nil, a fetch error or the timeout.
Terminal == pc = "Returned" /\ outcome # Running

\* C14: whatever the generators do (they may send, block in a send forever
\* or never send), tryBootstrapping returns with success, a fetch error or
\* the timeout, and once the deadline has passed it does not stay in the
\* select.
C14_ReachesTerminalOutcome ==
    /\ <>Terminal
    /\ (pc = "Racing" /\ timer = "fired") ~> (pc # "Racing")
    /\ [](pc = "Returned" => Terminal)

\* C14 witness: tryBootstrapping returned the timeout while no generator
\* ever sent an address.
C14_Witness ==
    /\ Terminal
    /\ outcome = TimedOut
    /\ received = <<>>
    /\ \A g \in Generators : gens[g].st = "running"

(***************************************************************************)
(* Claims about the life of the generator, checked under SpecDNSFair.      *)
(***************************************************************************)
\* Generate has left its loop over dnsServersChan and returned. The loop
\* ends when the channel is closed; the source has no close of it, and so
\* no step of the generator leads here.
GenerateReturned == dnsPc = "returned"

\* C15: in every execution Generate eventually leaves its loop over
\* dnsServersChan and returns, whether the DHCP side sends no, one or
\* several DNSInfo values.
C15_GenerateRunsToCompletion == <>GenerateReturned

(***************************************************************************)
(* Claims about the shared channel after the race, checked under SpecRace. *)
(***************************************************************************)
\* Generator g is in a send on ipHintsChan after the orchestrator has left
\* its select.
BlockedAfterRace(g) == pc # "Racing" /\ gens[g].st = "sending"

\* C16: once the orchestrator has left its select, a generator that is in a
\* send on the shared channel stays in that send in every later state: the
\* value is not received, the orchestrator does not come back to the
\* select, and the DNS-SD generator makes no further query, ends no call
\* and does not return.
C16_BlockedSendStaysBlocked ==
    [][\A g \in Generators :
          BlockedAfterRace(g) =>
              /\ gens'[g] = gens[g]
              /\ received' = received
              /\ pc' # "Racing"
              /\ g = "DNSSD" => UNCHANGED <<stack, work, dnsPc>>]_vars

\* C16 witness: the orchestrator timed out and the DNS-SD generator, with
\* calls still open, is in the send of the first address it resolved.
C16_Witness ==
    /\ pc = "Returned"
    /\ outcome = TimedOut
    /\ BlockedAfterRace("DNSSD")
    /\ zone = ChainSite
    /\ Len(stack) >= 3

(***************************************************************************)
(* Claims about the depth of the chase, checked under SpecChaseFair.       *)
(***************************************************************************)
\* A call that asks for the NAPTR records of the name that points to itself.
OnCycle(frame) == frame.query = LocalDomain /\ frame.dnsRR = "NAPTR"

\* The nested calls on the cycle.
CycleDepth == Cardinality({k \in 1..Len(stack) : OnCycle(stack[k])})

\* C17: on cyclic data (a NAPTR record of the discovery service with empty
\* flags whose replacement is its own name) a call on the cycle never
\* returns and goes on making the same query one call deeper, with a reader
\* that receives every address; on the acyclic sites, with the same reader,
\* every call returns.
C17_NoDepthBound ==
    /\ [][zone = CyclicSite =>
             \A k \in 1..Len(stack) : OnCycle(stack[k]) => Len(stack') >= k]_vars
    /\ \A d \in 1..(MaxDepth - 1) :
           (zone = CyclicSite /\ CycleDepth = d) ~> (CycleDepth = d + 1)
    /\ (zone # CyclicSite /\ stack # <<>>) ~> (stack = <<>>)

\* C17 witness: on the cyclic site the calls on the cycle are nested as deep
\* as the model follows them, the address of each response but the last
\* received.
C17_Witness ==
    /\ zone = CyclicSite
    /\ CycleDepth = MaxDepth
    /\ Len(stack) = MaxDepth
    /\ \A k \in 1..(MaxDepth - 1) : stack[k].phase = "chaseNAPTR"

(***************************************************************************)
(* Claims about the steps of one call, checked under SpecChase.            *)
(***************************************************************************)
\* The step of a call a log entry belongs to: 1 the scan (a send, the chase
\* of a PTR record), 2 the loop over serviceRecords, 3 the loop over
\* naptrRecords.
StepOf(entry) ==
    IF entry.rec.type = "SRV" THEN 2
    ELSE IF entry.rec.type = "NAPTR" THEN 3
    ELSE 1

ScannedAtOnce(answer) == answer.type \in {"PTR", "A", "AAAA"}

\* The records of the sends and PTR chases a call has made.
ScanLog(frame) ==
    LET entries == SelectSeq(frame.log, LAMBDA e : StepOf(e) = 1)
    IN  [k \in 1..Len(entries) |-> entries[k].rec]

\* The answers the call was given.
AnswersOf(frame) == Response(zone, frame.query, frame.dnsRR)

\* C18: within a call, the sends of the A/AAAA answers and the SRV queries
\* for the PTR answers are made during the scan, in the order of the
\* answers; no batched SRV record is chased before the scan has taken every
\* answer and every send of it has completed; no batched NAPTR record is
\* processed before every batched SRV record has been chased.
C18_StepsOfOneCallOrdered ==
    /\ \A frame \in Frames :
          /\ \A a, b \in 1..Len(frame.log) :
                a < b => StepOf(frame.log[a]) <= StepOf(frame.log[b])
          /\ ScanLog(frame) = SelectSeq(SubSeq(AnswersOf(frame), 1, frame.n),
                                        ScannedAtOnce)
          /\ frame.phase \in {"exchange", "scan"} =>
                \A a \in 1..Len(frame.log) : StepOf(frame.log[a]) = 1
          /\ frame.phase = "chaseSRV" =>
                \A a \in 1..Len(frame.log) : StepOf(frame.log[a]) <= 2
          /\ frame.phase \in {"chaseSRV", "chaseNAPTR"} =>
                frame.n = Len(AnswersOf(frame))
          /\ frame.phase = "chaseNAPTR" =>
                Len(LogOf(frame, "SRV")) = 2 * Len(frame.serviceRecords)
    /\ gens["DNSSD"].st = "sending" =>
          /\ stack # <<>>
          /\ Top.phase = "scan"
          /\ Top.log # <<>>
          /\ Top.log[Len(Top.log)].dnsRR = "send"

\* C18 witness: the call for the mixed response has sent the A address,
\* chased the PTR record, sent the AAAA address, then chased its SRV record
\* with two queries, then made the two queries of its NAPTR record.
C18_Witness ==
    \E frame \in Frames :
        /\ zone = MixedSite
        /\ frame.query = SDName /\ frame.dnsRR = "PTR"
        /\ [k \in 1..Len(frame.log) |-> frame.log[k].rec.type]
               = <<"A", "PTR", "AAAA", "SRV", "SRV", "NAPTR", "NAPTR">>

\* C19: a NAPTR answer of another service is never batched, no query is
\* ever made for it and no address sent on its account: no call asks about
\* the name only such a record points to, and the addresses of that name
\* are never sent.
C19_OtherServiceIgnored ==
    /\ \A frame \in Frames :
          /\ \A k \in 1..Len(frame.naptrRecords) :
                frame.naptrRecords[k].Service = discoveryDDDSDNSName
          /\ \A k \in 1..Len(frame.log) :
                frame.log[k].rec.type = "NAPTR" =>
                    frame.log[k].rec.Service = discoveryDDDSDNSName
          /\ frame.query # Host3
    /\ gens["DNSSD"].val \notin {Hint(StrayHint, 0), Hint("2001:db8::13", 0)}

\* C19 witness: the call for the mixed response has scanned the NAPTR
\* answer of the other service (flags "A", like the one it kept) and is
\* done with its NAPTR batch, which holds the one record it kept.
C19_Witness ==
    \E frame \in Frames :
        /\ zone = MixedSite
        /\ frame.query = SDName /\ frame.dnsRR = "PTR"
        /\ frame.n = 6
        /\ frame.phase = "chaseNAPTR"
        /\ Len(frame.naptrRecords) = 1
        /\ frame.i = 2

====
